---- MODULE Spec2Model ----
(***************************************************************************)
(* Token trees of tavor: the integer primitives (ConstantInt, RandomInt,   *)
(* RangeInt), the four arithmetic expressions and the Least list.          *)
(*                                                                         *)
(* Tokens are Go pointers, so they live in a heap indexed by identities;   *)
(* a token refers to its children by identity, and Clone allocates.        *)
(* Text is a sequence of one-character strings.                            *)
(***************************************************************************)
EXTENDS Integers, Sequences, FiniteSets

VARIABLES heap, orig, clone, last

vars == <<heap, orig, clone, last>>

(***************************************************************************)
(* Bounds of the model.                                                    *)
(***************************************************************************)
\* values of constants and range limits are drawn from (0 - NegVals)..MaxVal
NegVals == 1
MaxVal == 2
\* the operands of the arithmetic tokens range over (0 - NegVals)..MaxOperand
MaxOperand == 1
\* steps of a RangeInt are drawn from 1..MaxStep
MaxStep == 2
\* the least lists are built with n in 0..MaxN
MaxN == 1
\* one draw of the random source is a number in 0..MaxRand
MaxRand == 1
\* parser inputs are the texts over Alphabet of at most MaxBuf characters
MaxBuf == 2
\* width in bits of the unsigned machine word (uint), scaled down from 64
UintBits == 3

Vals == (0 - NegVals)..MaxVal
\* the heap holds the largest tree, its clone and the tokens an operation makes
HeapSize == 2 * (2 + MaxN + MaxRand) + MaxN + MaxRand + 1
Ids == 1..HeapSize
Nil == 0

(***************************************************************************)
(* Integers and text.                                                      *)
(***************************************************************************)
Digits == <<"0", "1", "2", "3", "4", "5", "6", "7", "8", "9">>

IsDigit(c) == \E d \in 1..10 : Digits[d] = c

DigitVal(c) == (CHOOSE d \in 1..10 : Digits[d] = c) - 1

Abs(x) == IF x < 0 THEN 0 - x ELSE x

\* a division that rounds toward minus infinity
GoDivFloor(a, b) == a \div b

\* Go's integer division truncates toward zero
GoDiv(a, b) ==
    IF (a < 0) = (b < 0) THEN Abs(a) \div Abs(b) ELSE 0 - (Abs(a) \div Abs(b))

\* Go's remainder has the sign of the dividend
GoMod(a, b) == a - b * GoDiv(a, b)

UintModulus == 2 ^ UintBits

\* conversion of an int to uint
Uint(x) == x % UintModulus

\* math.MaxUint32 is the largest value of half a word
MaxUint32 == 2 ^ (UintBits \div 2) - 1

RECURSIVE FormatUint(_)
FormatUint(n) ==
    IF n < 10 THEN <<Digits[n + 1]>>
    ELSE FormatUint(n \div 10) \o <<Digits[(n % 10) + 1]>>

\* strconv.Itoa
Itoa(v) == IF v < 0 THEN <<"-">> \o FormatUint(0 - v) ELSE FormatUint(v)

RECURSIVE ParseUint(_)
ParseUint(s) ==
    IF s = <<>> THEN 0
    ELSE ParseUint(SubSeq(s, 1, Len(s) - 1)) * 10 + DigitVal(s[Len(s)])

AllDigits(s) == \A k \in 1..Len(s) : IsDigit(s[k])

\* strconv.Atoi: an optional sign, then at least one digit and only digits;
\* the value is 0 when there is a syntax error
Atoi(s) ==
    LET signed == s # <<>> /\ s[1] \in {"-", "+"}
        body == IF signed THEN Tail(s) ELSE s
        ok == body # <<>> /\ AllDigits(body)
        mag == IF ok THEN ParseUint(body) ELSE 0
    IN  [ok |-> ok,
         val |-> IF signed /\ s[1] = "-" THEN 0 - mag ELSE mag]

(***************************************************************************)
(* The heap of tokens.                                                     *)
(***************************************************************************)
ArithKinds == {"add", "sub", "mul", "div"}
IntKinds == {"const", "random", "range"}

\* one record shape for every token type; a field a type does not have is 0
FreeObj ==
    [kind |-> "free", value |-> 0, from |-> 0, to |-> 0, step |-> 0,
     a |-> Nil, b |-> Nil, n |-> 0, token |-> Nil, elems |-> <<>>]

EmptyHeap == [i \in Ids |-> FreeObj]

FreeIds(h) == {i \in Ids : h[i].kind = "free"}

\* the address of a new object: one that no live object has
Alloc(h) == CHOOSE i \in FreeIds(h) : \A j \in FreeIds(h) : i <= j

Range(s) == {s[k] : k \in 1..Len(s)}

Children(h, x) ==
    IF h[x].kind \in ArithKinds THEN {h[x].a, h[x].b}
    ELSE IF h[x].kind = "least" THEN {h[x].token} \cup Range(h[x].elems)
    ELSE {}

RECURSIVE ReachFrom(_, _)
ReachFrom(h, S) ==
    LET N == S \cup UNION {Children(h, x) : x \in S}
    IN  IF N = S THEN S ELSE ReachFrom(h, N)

Reach(h, x) == IF x = Nil THEN {} ELSE ReachFrom(h, {x})

\* the live tokens in the order a walk from the roots meets them
RECURSIVE Visit(_, _, _), VisitSeq(_, _, _)
Visit(h, x, acc) ==
    IF x = Nil \/ x \in Range(acc) THEN acc
    ELSE IF h[x].kind \in ArithKinds
         THEN Visit(h, h[x].b, Visit(h, h[x].a, Append(acc, x)))
    ELSE IF h[x].kind = "least"
         THEN VisitSeq(h, h[x].elems, Visit(h, h[x].token, Append(acc, x)))
    ELSE Append(acc, x)
VisitSeq(h, s, acc) ==
    IF s = <<>> THEN acc ELSE VisitSeq(h, Tail(s), Visit(h, Head(s), acc))

\* the address a token gets when the live tokens are laid out in that order
Moved(order, x) ==
    IF x \in Range(order) THEN CHOOSE k \in 1..Len(order) : order[k] = x
    ELSE Nil

\* Addresses carry no meaning: tokens no root reaches are collected and the
\* live ones are laid out in the order of the walk, references following.
Collect(h, order) ==
    CHOOSE r \in
        {[k \in Ids |->
            IF k <= Len(order)
            THEN [h[order[k]] EXCEPT !.a = to[@], !.b = to[@],
                                     !.token = to[@],
                                     !.elems = [j \in 1..Len(@) |-> to[@[j]]]]
            ELSE FreeObj] : to \in {[x \in 0..HeapSize |-> Moved(order, x)]}} :
        TRUE

RECURSIVE Size(_, _), SizeSeq(_, _)
Size(h, x) ==
    IF h[x].kind \in ArithKinds THEN 1 + Size(h, h[x].a) + Size(h, h[x].b)
    ELSE IF h[x].kind = "least"
         THEN 1 + Size(h, h[x].token) + SizeSeq(h, h[x].elems)
    ELSE 1
SizeSeq(h, s) == IF s = <<>> THEN 0 ELSE Size(h, Head(s)) + SizeSeq(h, Tail(s))

(***************************************************************************)
(* Constructors.  Each returns the new heap h and the new token p.         *)
(***************************************************************************)
NewConstantInt(h, v) ==
    LET p == Alloc(h)
    IN  [h |-> [h EXCEPT ![p] = [FreeObj EXCEPT !.kind = "const", !.value = v]],
         p |-> p]

NewRandomInt(h) ==
    LET p == Alloc(h)
    IN  [h |-> [h EXCEPT ![p] = [FreeObj EXCEPT !.kind = "random", !.value = 0]],
         p |-> p]

\* the constructor panics when from > to or step < 1: callers pass neither
NewRangeIntWithStep(h, from, to, step) ==
    LET p == Alloc(h)
    IN  [h |-> [h EXCEPT ![p] = [FreeObj EXCEPT !.kind = "range",
                                     !.from = from, !.to = to, !.step = step,
                                     !.value = from]],
         p |-> p]

NewArithmetic(h, op, a, b) ==
    LET p == Alloc(h)
    IN  [h |-> [h EXCEPT ![p] = [FreeObj EXCEPT !.kind = op, !.a = a, !.b = b]],
         p |-> p]

(***************************************************************************)
(* Clone.                                                                  *)
(***************************************************************************)
RECURSIVE Clone(_, _), CloneSeq(_, _)

\* ConstantInt.Clone, RandomInt.Clone, RangeInt.Clone: a copy of the fields
IntClone(h, x) ==
    LET p == Alloc(h)
    IN  [h |-> [h EXCEPT ![p] = h[x]], p |-> p]

ArithClone(h, x) ==
    LET ca == Clone(h, h[x].a)
        cb == Clone(ca.h, h[x].b)
        p == Alloc(cb.h)
    IN  [h |-> [cb.h EXCEPT ![p] = [FreeObj EXCEPT !.kind = h[x].kind,
                                        !.a = ca.p, !.b = cb.p]],
         p |-> p]

LeastCloneShared(h, x) ==
    LET ct == Clone(h, h[x].token)
        p == Alloc(ct.h)
    IN  [h |-> [ct.h EXCEPT ![p] = [FreeObj EXCEPT !.kind = "least",
                                        !.n = h[x].n, !.token = ct.p,
                                        !.elems = h[x].elems]],
         p |-> p]

LeastClone(h, x) ==
    LET ct == Clone(h, h[x].token)
        cv == CloneSeq(ct.h, h[x].elems)
        p == Alloc(cv.h)
    IN  [h |-> [cv.h EXCEPT ![p] = [FreeObj EXCEPT !.kind = "least",
                                        !.n = h[x].n, !.token = ct.p,
                                        !.elems = cv.ps]],
         p |-> p]

Clone(h, x) ==
    IF h[x].kind \in ArithKinds THEN ArithClone(h, x)
    ELSE IF h[x].kind = "least" THEN LeastClone(h, x)
    ELSE IntClone(h, x)

\* the loop "for i, tok := range l.value { c.value[i] = tok.Clone() }"
CloneSeq(h, s) ==
    IF s = <<>> THEN [h |-> h, ps |-> <<>>]
    ELSE LET c == Clone(h, Head(s))
             r == CloneSeq(c.h, Tail(s))
         IN  [h |-> r.h, ps |-> <<c.p>> \o r.ps]

\* k clones of the token t, the loop "toks[i] = l.token.Clone()"
RECURSIVE Clones(_, _, _)
Clones(h, t, k) ==
    IF k = 0 THEN [h |-> h, ps |-> <<>>]
    ELSE LET c == Clone(h, t)
             r == Clones(c.h, t, k - 1)
         IN  [h |-> r.h, ps |-> <<c.p>> \o r.ps]

NewLeast(h, tok, n) ==
    LET cv == Clones(h, tok, n)
        p == Alloc(cv.h)
    IN  [h |-> [cv.h EXCEPT ![p] = [FreeObj EXCEPT !.kind = "least", !.n = n,
                                        !.token = tok, !.elems = cv.ps]],
         p |-> p]

(***************************************************************************)
(* String, Permutations, PermutationsAll.                                  *)
(***************************************************************************)
\* the text that stands for a String() call that panicked
PanicText == <<"panic">>

ArithApply(op, a, b) ==
    IF op = "add" THEN a + b
    ELSE IF op = "sub" THEN a - b
    ELSE IF op = "mul" THEN a * b
    ELSE GoDiv(a, b)

RECURSIVE String(_, _), StringSeq(_, _)

\* AddArithmetic.String and its three siblings: both children are rendered
\* and parsed, a child that is no integer panics, and so does a zero divisor
ArithString(h, x) ==
    LET a == Atoi(String(h, h[x].a))
        b == Atoi(String(h, h[x].b))
    IN  IF ~a.ok \/ ~b.ok THEN PanicText
        ELSE IF h[x].kind = "div" /\ b.val = 0 THEN PanicText
        ELSE Itoa(ArithApply(h[x].kind, a.val, b.val))

LeastString(h, x) == StringSeq(h, h[x].elems)

String(h, x) ==
    IF h[x].kind \in ArithKinds THEN ArithString(h, x)
    ELSE IF h[x].kind = "least" THEN LeastString(h, x)
    ELSE Itoa(h[x].value)

StringSeq(h, s) ==
    IF s = <<>> THEN <<>> ELSE String(h, Head(s)) \o StringSeq(h, Tail(s))

RangeIntPermutations(h, x) ==
    LET perms == GoDiv(h[x].to - h[x].from, h[x].step) + 1
    IN  IF perms < 0 THEN MaxUint32 ELSE Uint(perms)

\* Least.Permutations panics: it is asked of no list
Permutations(h, x) ==
    IF h[x].kind = "range" THEN RangeIntPermutations(h, x) ELSE 1

RECURSIVE PermutationsAll(_, _)

ArithPermutationsAll(h, x) ==
    Uint(PermutationsAll(h, h[x].a) * PermutationsAll(h, h[x].b))

PermutationsAll(h, x) ==
    IF h[x].kind \in ArithKinds THEN ArithPermutationsAll(h, x)
    ELSE Permutations(h, x)

(***************************************************************************)
(* The random source.  A draw is a number of 0..MaxRand; a stream is a      *)
(* sequence of draws.                                                      *)
(***************************************************************************)
Draws == 0..MaxRand

\* math.MaxInt64, at the width of the checker's integers
MaxInt64 == 2147483647

\* r.Int63n(k) and r.Intn(k): a number of 0..k-1
Intn(raw, k) == raw % k

(***************************************************************************)
(* Fuzz and FuzzAll.                                                       *)
(***************************************************************************)
RangeIntpermutationOneBased(h, x, i) ==
    [h EXCEPT ![x].value = h[x].from + ((i + 1) * h[x].step)]

\* RangeInt.permutation
RangeIntpermutation(h, x, i) ==
    [h EXCEPT ![x].value = h[x].from + (i * h[x].step)]

RandomIntFuzz(h, x, raw) == [h EXCEPT ![x].value = raw]

RangeIntFuzz(h, x, raw) ==
    RangeIntpermutation(h, x, Intn(raw, RangeIntPermutations(h, x)))

LeastFuzzBelow(h, x, raw) ==
    LET cv == Clones(h, h[x].token, Intn(raw, MaxInt64 - h[x].n))
    IN  [cv.h EXCEPT ![x].elems = cv.ps]

LeastFuzz(h, x, raw) ==
    LET n == Intn(raw, MaxInt64 - h[x].n) + h[x].n
        cv == Clones(h, h[x].token, n)
    IN  [cv.h EXCEPT ![x].elems = cv.ps]

\* ConstantInt.Fuzz and the Fuzz of the arithmetic tokens do nothing
Fuzz(h, x, raw) ==
    IF h[x].kind = "random" THEN RandomIntFuzz(h, x, raw)
    ELSE IF h[x].kind = "range" THEN RangeIntFuzz(h, x, raw)
    ELSE IF h[x].kind = "least" THEN LeastFuzz(h, x, raw)
    ELSE h

\* the kinds whose Fuzz reads the random source
DrawsOne(h, x) == h[x].kind \in {"random", "range", "least"}

RECURSIVE FuzzAll(_, _, _), FuzzAllSeq(_, _, _)

\* FuzzAll: Fuzz, then FuzzAll of the children in order.  rs is the stream of
\* the draws to come; the result holds what is left of it.
FuzzAll(h, x, rs) ==
    LET h1 == IF DrawsOne(h, x) THEN Fuzz(h, x, Head(rs)) ELSE h
        r1 == IF DrawsOne(h, x) THEN Tail(rs) ELSE rs
    IN  IF h[x].kind \in ArithKinds
        THEN LET fa == FuzzAll(h1, h[x].a, r1)
             IN  FuzzAll(fa.h, h[x].b, fa.rs)
        ELSE IF h[x].kind = "least" THEN FuzzAllSeq(h1, h1[x].elems, r1)
        ELSE [h |-> h1, rs |-> r1]

FuzzAllSeq(h, s, rs) ==
    IF s = <<>> THEN [h |-> h, rs |-> rs]
    ELSE LET f == FuzzAll(h, Head(s), rs)
         IN  FuzzAllSeq(f.h, Tail(s), f.rs)

\* the most draws a FuzzAll of x can take
RECURSIVE MaxDraws(_, _)
MaxDraws(h, x) ==
    IF h[x].kind \in ArithKinds THEN MaxDraws(h, h[x].a) + MaxDraws(h, h[x].b)
    ELSE IF h[x].kind = "least"
         THEN 1 + (h[x].n + MaxRand) * MaxDraws(h, h[x].token)
    ELSE IF DrawsOne(h, x) THEN 1 ELSE 0

\* the most objects a Fuzz of x can allocate
MaxFuzzAlloc(h, x) ==
    IF h[x].kind = "least" THEN (h[x].n + MaxRand) * Size(h, h[x].token) ELSE 0

(***************************************************************************)
(* Permutation.                                                            *)
(***************************************************************************)
NoError == "none"
IndexOutOfBound == "PermutationErrorIndexOutOfBound"
UnexpectedEOF == "ParseErrorUnexpectedEOF"
UnexpectedData == "ParseErrorUnexpectedData"

PermutationUnchecked(h, x, i) ==
    [h |-> IF h[x].kind = "random" THEN [h EXCEPT ![x].value = 0]
           ELSE IF h[x].kind = "range" THEN RangeIntpermutation(h, x, i - 1)
           ELSE h,
     err |-> IF i < 1 \/ i > Permutations(h, x) THEN IndexOutOfBound
             ELSE NoError]

\* ConstantInt.Permutation, RandomInt.Permutation, RangeInt.Permutation and
\* the Permutation of the arithmetic tokens
Permutation(h, x, i) ==
    IF i < 1 \/ i > Permutations(h, x)
    THEN [h |-> h, err |-> IndexOutOfBound]
    ELSE [h |-> IF h[x].kind = "random" THEN [h EXCEPT ![x].value = 0]
                ELSE IF h[x].kind = "range"
                     THEN RangeIntpermutation(h, x, i - 1)
                ELSE h,
          err |-> NoError]

(***************************************************************************)
(* Parse.  data is the parser's buffer, cur a position 0..Len(data); the    *)
(* result is the heap, the returned position and the list of errors.       *)
(***************************************************************************)
Alphabet == {"-", "0", "1", "a"}

Buffers == UNION {[1..k -> Alphabet] : k \in 0..MaxBuf}

\* pars.Data[lo:hi]
Slice(data, lo, hi) == SubSeq(data, lo + 1, hi)

ConstantIntParsePrefix(h, x, data, cur) ==
    LET v == Itoa(h[x].value)
        nextIndex == Len(v) + cur
    IN  IF nextIndex > Len(data)
        THEN [h |-> h, cur |-> cur, errs |-> <<UnexpectedEOF>>]
        ELSE IF v[1] # data[cur + 1]
        THEN [h |-> h, cur |-> cur, errs |-> <<UnexpectedData>>]
        ELSE [h |-> h, cur |-> nextIndex, errs |-> <<>>]

ConstantIntParse(h, x, data, cur) ==
    LET v == Itoa(h[x].value)
        nextIndex == Len(v) + cur
    IN  IF nextIndex > Len(data)
        THEN [h |-> h, cur |-> cur, errs |-> <<UnexpectedEOF>>]
        ELSE IF v # Slice(data, cur, nextIndex)
        THEN [h |-> h, cur |-> cur, errs |-> <<UnexpectedData>>]
        ELSE [h |-> h, cur |-> nextIndex, errs |-> <<>>]

\* the loop of RangeInt.Parse, entered with i < Len(data): the result is i and
\* v when the loop is left
RECURSIVE RangeIntScan(_, _, _, _)
RangeIntScan(data, to, i, v) ==
    LET c == data[i + 1]
        v2 == Append(v, c)
    IN  IF ~IsDigit(c) THEN [i |-> i, v |-> v]
        ELSE IF Atoi(v2).val > to THEN [i |-> i, v |-> v]
        ELSE IF i + 1 = Len(data) THEN [i |-> i + 1, v |-> v2]
        ELSE RangeIntScan(data, to, i + 1, v2)

RangeIntParseNoBackOff(h, x, data, cur) ==
    IF cur = Len(data)
    THEN [h |-> h, cur |-> cur, errs |-> <<UnexpectedEOF>>]
    ELSE LET sc == RangeIntScan(data, h[x].to, cur, <<>>)
             over == sc.i < Len(data) /\ IsDigit(data[sc.i + 1])
             i == IF over THEN sc.i ELSE sc.i - 1
             ci == Atoi(sc.v).val
         IN  IF sc.v = <<>> \/ (ci < h[x].from \/ ci > h[x].to)
                \/ GoMod(ci, h[x].step) # 0
             THEN [h |-> h, cur |-> cur, errs |-> <<UnexpectedData>>]
             ELSE [h |-> [h EXCEPT ![x].value = ci], cur |-> i + 1,
                   errs |-> <<>>]

RangeIntParse(h, x, data, cur) ==
    IF cur = Len(data)
    THEN [h |-> h, cur |-> cur, errs |-> <<UnexpectedEOF>>]
    ELSE LET sc == RangeIntScan(data, h[x].to, cur, <<>>)
             i == sc.i - 1
             ci == Atoi(sc.v).val
         IN  IF sc.v = <<>> \/ (ci < h[x].from \/ ci > h[x].to)
                \/ GoMod(ci, h[x].step) # 0
             THEN [h |-> h, cur |-> cur, errs |-> <<UnexpectedData>>]
             ELSE [h |-> [h EXCEPT ![x].value = ci], cur |-> i + 1,
                   errs |-> <<>>]

\* the Parse of the other tokens panics ("TODO implement")
ParseImplemented(h, x) == h[x].kind \in {"const", "range"}

Parse(h, x, data, cur) ==
    IF h[x].kind = "const" THEN ConstantIntParse(h, x, data, cur)
    ELSE RangeIntParse(h, x, data, cur)

(***************************************************************************)
(* InternalReplace, Activate, Deactivate.                                  *)
(***************************************************************************)
ArithInternalReplace(h, x, oldToken, newToken) ==
    LET h1 == IF oldToken = h[x].a THEN [h EXCEPT ![x].a = newToken] ELSE h
    IN  IF oldToken = h[x].b THEN [h1 EXCEPT ![x].b = newToken] ELSE h1

LeastInternalReplaceStale(h, x, oldToken, newToken) ==
    IF h[x].token = oldToken THEN [h EXCEPT ![x].token = newToken] ELSE h

LeastInternalReplace(h, x, oldToken, newToken) ==
    IF h[x].token = oldToken
    THEN LET cv == Clones(h, newToken, Len(h[x].elems))
         IN  [cv.h EXCEPT ![x].token = newToken, ![x].elems = cv.ps]
    ELSE h

InternalReplace(h, x, oldToken, newToken) ==
    IF h[x].kind = "least" THEN LeastInternalReplace(h, x, oldToken, newToken)
    ELSE ArithInternalReplace(h, x, oldToken, newToken)

IsOptional(h, x) == h[x].n = 0

ActivateAlways(h, x) ==
    LET c == Clone(h, h[x].token)
    IN  [c.h EXCEPT ![x].elems = <<c.p>>]

Activate(h, x) ==
    IF h[x].n > 0 THEN h
    ELSE LET c == Clone(h, h[x].token)
         IN  [c.h EXCEPT ![x].elems = <<c.p>>]

Deactivate(h, x) ==
    IF h[x].n > 0 THEN h ELSE [h EXCEPT ![x].elems = <<>>]

\* List interface of the least list
LeastLen(h, x) == Len(h[x].elems)

(***************************************************************************)
(* The trees the program is started with, as the constructor calls that    *)
(* build them.                                                             *)
(***************************************************************************)
ConstSpec(v) == [k |-> "const", v |-> v, f |-> 0, t |-> 0, s |-> 0]
RandomSpec == [k |-> "random", v |-> 0, f |-> 0, t |-> 0, s |-> 0]
RangeSpec(f, t, s) == [k |-> "range", v |-> 0, f |-> f, t |-> t, s |-> s]

LeafSpecs ==
    {ConstSpec(v) : v \in Vals} \cup {RandomSpec}
    \cup {RangeSpec(f, t, s) : f \in Vals, t \in Vals, s \in 1..MaxStep}

FullRange == RangeSpec(0 - NegVals, MaxOperand, 1)
SmallRange == RangeSpec(0, 1, 1)

\* the operands of the arithmetic tokens built at the start; 3 and 4 are the
\* operands of the documented example
OperandPairs == {<<FullRange, FullRange>>, <<ConstSpec(3), ConstSpec(4)>>}

\* the nested trees built at the start are sub(div(..), ..) and mul(add(..), ..)
NestedOps == {"sub", "mul"}
Inner(op) == IF op = "sub" THEN "div" ELSE "add"

\* the templates of the lists built at the start
TemplateSpecs == {ConstSpec(1), SmallRange}

\* the token a rewriting pass builds to replace an operand or a template
NewTokenSpecs == {ConstSpec(2)}

BuildLeaf(h, sp) ==
    IF sp.k = "const" THEN NewConstantInt(h, sp.v)
    ELSE IF sp.k = "random" THEN NewRandomInt(h)
    ELSE NewRangeIntWithStep(h, sp.f, sp.t, sp.s)

BuildArith(h, op, sa, sb) ==
    LET a == BuildLeaf(h, sa)
        b == BuildLeaf(a.h, sb)
    IN  NewArithmetic(b.h, op, a.p, b.p)

BuildNested(h, op) ==
    LET a == BuildArith(h, Inner(op), SmallRange, SmallRange)
        b == BuildLeaf(a.h, SmallRange)
    IN  NewArithmetic(b.h, op, a.p, b.p)

BuildLeast(h, sp, n) == NewLeast(BuildLeaf(h, sp).h, BuildLeaf(h, sp).p, n)

(***************************************************************************)
(* The state: the heap, the tree under test (orig), its clone (or Nil) and  *)
(* the last call: the operation, the tree of the token it was called on,   *)
(* and the arguments and results the properties read.                      *)
(***************************************************************************)
Call(op, tree, arg, hit, buf, out, err, errs) ==
    [op |-> op, tree |-> tree, arg |-> arg, hit |-> hit, buf |-> buf,
     out |-> out, err |-> err, errs |-> errs]

Plain(op, tree) == Call(op, tree, 0, FALSE, <<>>, 0, NoError, <<>>)

\* the state an operation leaves: the heap h with the roots o and c, after
\* collection
Settle(h, o, c) ==
    CHOOSE st \in
        {[heap |-> Collect(h, order), orig |-> Moved(order, o),
          clone |-> Moved(order, c)] :
            order \in {Visit(h, c, Visit(h, o, <<>>))}} : TRUE

Start(r) ==
    LET st == Settle(r.h, r.p, Nil)
    IN  /\ heap = st.heap
        /\ orig = st.orig
        /\ clone = st.clone
        /\ last = Plain("New", "orig")

InitInt ==
    \E sp \in LeafSpecs :
        /\ sp.k = "range" => sp.f <= sp.t
        /\ Start(BuildLeaf(EmptyHeap, sp))

InitArith ==
    \/ \E op \in ArithKinds, pr \in OperandPairs :
          Start(BuildArith(EmptyHeap, op, pr[1], pr[2]))
    \/ \E op \in NestedOps : Start(BuildNested(EmptyHeap, op))

InitLeast ==
    \E sp \in TemplateSpecs, n \in 0..MaxN : Start(BuildLeast(EmptyHeap, sp, n))

\* the trees that are cloned: every integer token, the four arithmetic
\* tokens over a range and a random integer, and the lists
Init ==
    \/ InitInt
    \/ \E op \in ArithKinds :
          Start(BuildArith(EmptyHeap, op, SmallRange, RandomSpec))
    \/ InitLeast

Roots == {orig, clone} \ {Nil}
Live == {x \in Ids : heap[x].kind # "free"}
Free == Cardinality(FreeIds(heap))

\* the tree a live token belongs to: the tokens of orig are laid out first
TreeOf(x) == IF clone = Nil \/ x < clone THEN "orig" ELSE "clone"

\* the step of an operation that can change the shape of a tree: it leaves
\* the heap h and the clone c
Step(h, c, call) ==
    \E st \in {Settle(hv, orig, c) : hv \in {h}} :
        /\ heap' = st.heap
        /\ orig' = st.orig
        /\ clone' = st.clone
        /\ last' = call

\* the step of an operation that only changes values
ValueStep(h, call) ==
    /\ heap' = h
    /\ last' = call
    /\ UNCHANGED <<orig, clone>>

DoClone ==
    /\ clone = Nil
    /\ Size(heap, orig) <= Free
    /\ LET c == Clone(heap, orig)
       IN  Step(c.h, c.p, Plain("Clone", "orig"))

DoFuzz(x, raw) ==
    /\ MaxFuzzAlloc(heap, x) <= Free
    /\ Step(Fuzz(heap, x, raw), clone, Plain("Fuzz", TreeOf(x)))

DoFuzzAll(x, rs) ==
    /\ MaxFuzzAlloc(heap, x) <= Free
    /\ Step(FuzzAll(heap, x, rs).h, clone, Plain("FuzzAll", TreeOf(x)))

\* Least.Permutation panics ("TODO not implemented")
DoPermutation(x, i) ==
    /\ heap[x].kind # "least"
    /\ LET r == Permutation(heap, x, i)
       IN  ValueStep(r.h, Call("Permutation", TreeOf(x), i, FALSE, <<>>, 0, r.err, <<>>))

DoParse(x, data, cur) ==
    /\ ParseImplemented(heap, x)
    /\ LET r == Parse(heap, x, data, cur)
       IN  ValueStep(r.h, Call("Parse", TreeOf(x), cur, FALSE, data, r.cur, NoError,
                               r.errs))

\* hit records whether oldToken was an operand or the template of x
DoInternalReplace(x, oldToken, sp) ==
    /\ heap[x].kind \in ArithKinds \cup {"least"}
    /\ 1 + Len(heap[x].elems) <= Free
    /\ LET nt == BuildLeaf(heap, sp)
       IN  Step(InternalReplace(nt.h, x, oldToken, nt.p), clone,
                Call("InternalReplace", TreeOf(x), 0,
                     oldToken \in {heap[x].a, heap[x].b, heap[x].token},
                     <<>>, 0, NoError, <<>>))

DoActivate(x) ==
    /\ heap[x].kind = "least"
    /\ 1 <= Free
    /\ Step(Activate(heap, x), clone, Plain("Activate", TreeOf(x)))

DoDeactivate(x) ==
    /\ heap[x].kind = "least"
    /\ Step(Deactivate(heap, x), clone, Plain("Deactivate", TreeOf(x)))

FuzzSteps ==
    \/ \E x \in Live, raw \in Draws : DoFuzz(x, raw)
    \/ \E x \in Live : \E rs \in [1..MaxDraws(heap, x) -> Draws] :
          DoFuzzAll(x, rs)

PermutationSteps ==
    \E x \in Live : \E i \in 0..(Permutations(heap, x) + 1) :
        DoPermutation(x, i)

ParseSteps ==
    \E x \in Roots, data \in Buffers : \E cur \in 0..Len(data) :
        DoParse(x, data, cur)

ReplaceSteps ==
    \E x \in Live : \E oldToken \in Children(heap, x) \cup {x} :
        \E sp \in NewTokenSpecs : DoInternalReplace(x, oldToken, sp)

OptionalSteps ==
    \/ \E x \in Live : DoActivate(x)
    \/ \E x \in Live : DoDeactivate(x)

\* the integer tokens on their own: generation and parsing
NextInt == FuzzSteps \/ PermutationSteps \/ ParseSteps

\* the arithmetic tokens: generation and rewriting
NextArith == FuzzSteps \/ PermutationSteps \/ ReplaceSteps

\* every tree and its clone: generation and rewriting
Next == DoClone \/ FuzzSteps \/ PermutationSteps \/ ReplaceSteps \/ OptionalSteps

SpecInt == InitInt /\ [][NextInt]_vars
SpecArith == InitArith /\ [][NextArith]_vars
SpecLeast == InitLeast /\ [][Next]_vars
Spec == Init /\ [][Next]_vars

(***************************************************************************)
(* What the properties are stated with.                                    *)
(***************************************************************************)
\* floor(d / s) for d >= 0 and s >= 1
FloorQuot(d, s) == CHOOSE k \in 0..d : k * s <= d /\ d < (k + 1) * s

RECURSIVE Pow10(_)
Pow10(k) == IF k = 0 THEN 1 ELSE 10 * Pow10(k - 1)

RECURSIVE DigitSum(_, _)
DigitSum(t, k) ==
    IF k > Len(t) THEN 0
    ELSE DigitVal(t[k]) * Pow10(Len(t) - k) + DigitSum(t, k + 1)

\* t is a run of decimal digits
IsDigitRun(t) == t # <<>> /\ \A k \in 1..Len(t) : IsDigit(t[k])

\* t is the text of a decimal integer
IsDecimal(t) ==
    IF t # <<>> /\ t[1] = "-" THEN IsDigitRun(Tail(t)) ELSE IsDigitRun(t)

\* the integer a decimal text stands for
DecimalValue(t) ==
    IF t[1] = "-" THEN 0 - DigitSum(Tail(t), 1) ELSE DigitSum(t, 1)

\* the token renders the decimal integer v
Renders(h, x, v) == IsDecimal(String(h, x)) /\ DecimalValue(String(h, x)) = v

\* data holds the text t at the positions cur .. cur + Len(t) - 1
HoldsAt(data, cur, t) ==
    /\ cur + Len(t) <= Len(data)
    /\ \A k \in 1..Len(t) : data[cur + k] = t[k]

(***************************************************************************)
(* C1.  A ranged integer has floor((to - from) / step) + 1 permutations,   *)
(* and for every i of 1..Permutations() the call Permutation(i) succeeds   *)
(* and leaves the value v = from + (i - 1) * step, which the token renders, *)
(* with from <= v <= to and (v - from) % step = 0.                         *)
(***************************************************************************)
C1_RangePermutation ==
    heap[orig].kind = "range" =>
        LET o == heap[orig]
            n == FloorQuot(o.to - o.from, o.step) + 1
        IN  /\ Permutations(heap, orig) = n
            /\ (last.op = "Permutation" /\ last.arg \in 1..n) =>
                  /\ last.err = NoError
                  /\ o.value = o.from + (last.arg - 1) * o.step
                  /\ Renders(heap, orig, o.value)
                  /\ o.from <= o.value /\ o.value <= o.to
                  /\ (o.value - o.from) % o.step = 0

\* the last of two permutations of a range whose width is no multiple of the
\* step has been selected
C1_Witness ==
    /\ heap[orig].kind = "range"
    /\ heap[orig].step = 2
    /\ heap[orig].to - heap[orig].from = 3
    /\ last.op = "Permutation" /\ last.arg = 2 /\ last.err = NoError
    /\ heap[orig].value = heap[orig].from + 2

(***************************************************************************)
(* C7.  Parse of a constant integer with decimal text t succeeds exactly   *)
(* when the buffer holds t at the cursor, and then returns the cursor      *)
(* behind t and no error; it fails with unexpected-EOF when fewer than     *)
(* Len(t) characters remain and with unexpected-data when enough remain    *)
(* but differ; a failure returns the cursor it was given; the value stays. *)
(***************************************************************************)
C7_ConstantParse ==
    [][(last'.op = "Parse" /\ heap[orig].kind = "const") =>
        LET t == String(heap, orig)
            data == last'.buf
            cur == last'.arg
        IN  /\ Renders(heap, orig, heap[orig].value)
            /\ heap' = heap
            /\ IF HoldsAt(data, cur, t)
               THEN last'.out = cur + Len(t) /\ last'.errs = <<>>
               ELSE /\ last'.out = cur
                    /\ last'.errs = IF Len(data) - cur < Len(t)
                                    THEN <<UnexpectedEOF>>
                                    ELSE <<UnexpectedData>>]_vars

\* the constant -1 has been parsed from a buffer that holds "-1" at cursor 0
C7_Witness ==
    /\ heap[orig].kind = "const" /\ heap[orig].value = 0 - 1
    /\ last.op = "Parse" /\ last.buf = <<"-", "1">> /\ last.arg = 0
    /\ last.out = 2 /\ last.errs = <<>>

(***************************************************************************)
(* C10.  Parse of a ranged integer: a failure returns the cursor it was    *)
(* given and one error, unexpected-EOF when the cursor is at the end of    *)
(* the buffer and unexpected-data otherwise, and leaves the value; a       *)
(* success returns no error and a cursor c, cur < c <= length, such that   *)
(* buffer[cur, c) is a run of digits whose number is the new value.        *)
(***************************************************************************)
C10_RangeParse ==
    [][(last'.op = "Parse" /\ heap[orig].kind = "range") =>
        LET data == last'.buf
            cur == last'.arg
            c == last'.out
        IN  IF last'.errs # <<>>
            THEN /\ c = cur
                 /\ last'.errs = IF cur = Len(data) THEN <<UnexpectedEOF>>
                                 ELSE <<UnexpectedData>>
                 /\ heap' = heap
            ELSE /\ cur < c /\ c <= Len(data)
                 /\ IsDigitRun(Slice(data, cur, c))
                 /\ DigitSum(Slice(data, cur, c), 1) = heap'[orig].value
                 /\ heap' = [heap EXCEPT ![orig].value = heap'[orig].value]]_vars

\* "11" was parsed by a range that ends at 1: the second digit was dropped
\* and the cursor stands on it
C10_Witness ==
    /\ heap[orig].kind = "range" /\ heap[orig].to = 1
    /\ last.op = "Parse" /\ last.buf = <<"1", "1">> /\ last.arg = 0
    /\ last.out = 1 /\ last.errs = <<>> /\ heap[orig].value = 1

(***************************************************************************)
(* C2.  On a constant, random or ranged integer and on each arithmetic     *)
(* token, Permutation(0) and Permutation(Permutations() + 1) return the    *)
(* index-out-of-bound error and change nothing: not the token's value, not *)
(* its operands, not their values.                                         *)
(***************************************************************************)
C2_FailedPermutation ==
    [][last'.op = "Permutation" =>
        \A x \in Live :
            heap[x].kind \in IntKinds \cup ArithKinds =>
                \A i \in {0, Permutations(heap, x) + 1} :
                    DoPermutation(x, i) =>
                        /\ last'.err = IndexOutOfBound
                        /\ heap' = heap
                        /\ orig' = orig /\ clone' = clone]_vars

\* Permutation(2) has failed on a token of an arithmetic tree whose random
\* operand keeps the value 1 it was fuzzed to
C2_Witness ==
    /\ heap[orig].kind \in ArithKinds
    /\ heap[heap[orig].b].kind = "random" /\ heap[heap[orig].b].value = 1
    /\ last.op = "Permutation" /\ last.arg = 2
    /\ last.err = IndexOutOfBound

(***************************************************************************)
(* C3.  Right after Clone the clone renders what the original renders, and *)
(* the two trees share no token; a Fuzz, FuzzAll, Permutation,             *)
(* InternalReplace, Activate or Deactivate of a token of the clone leaves  *)
(* the original as it was (its text, its template, its elements), and one  *)
(* of a token of the original leaves the clone as it was.                  *)
(***************************************************************************)
\* the children of a token in order
Kids(h, x) ==
    IF h[x].kind \in ArithKinds THEN <<h[x].a, h[x].b>>
    ELSE IF h[x].kind = "least" THEN <<h[x].token>> \o h[x].elems
    ELSE <<>>

\* a tree without its addresses: the fields of the token and its children
RECURSIVE Snap(_, _)
Snap(h, x) ==
    [obj |-> [h[x] EXCEPT !.a = Nil, !.b = Nil, !.token = Nil, !.elems = <<>>],
     kids |-> [j \in 1..Len(Kids(h, x)) |-> Snap(h, Kids(h, x)[j])]]

\* no token of the tree at x is reached twice
IsTree(h, x) == Cardinality(Reach(h, x)) = Size(h, x)

C3_Separate ==
    clone # Nil =>
        /\ Reach(heap, orig) \cap Reach(heap, clone) = {}
        /\ IsTree(heap, orig) /\ IsTree(heap, clone)
        /\ last.op = "Clone" =>
              /\ String(heap, clone) = String(heap, orig)
              /\ Snap(heap, clone) = Snap(heap, orig)

C3_Frame ==
    (clone # Nil /\ last'.op # "Clone") =>
        IF last'.tree = "clone"
        THEN /\ Snap(heap', orig') = Snap(heap, orig)
             /\ String(heap', orig') = String(heap, orig)
        ELSE /\ Snap(heap', clone') = Snap(heap, clone)
             /\ String(heap', clone') = String(heap, clone)

C3_CloneIndependent == []C3_Separate /\ [][C3_Frame]_vars

\* the template of the clone of a list was replaced and the clone refilled,
\* while the original still holds two elements of its own template
C3_Witness ==
    /\ clone # Nil
    /\ heap[orig].kind = "least" /\ Len(heap[orig].elems) = 2
    /\ last.op = "InternalReplace" /\ last.tree = "clone" /\ last.hit
    /\ Len(heap[clone].elems) = 1
    /\ String(heap, clone) = <<"2">>
    /\ String(heap, orig) = <<"1", "1">>

(***************************************************************************)
(* C4.  InternalReplace(template, newTemplate) on a list makes newTemplate *)
(* the template, keeps the number of elements and makes every element a    *)
(* fresh clone of newTemplate, so that the list renders newTemplate's      *)
(* value Len() times; InternalReplace(x, newTemplate) with x not the       *)
(* template changes nothing.                                               *)
(***************************************************************************)
\* the root the last call was made on, before and after the call
Target == IF last'.tree = "orig" THEN orig ELSE clone
TargetAfter == IF last'.tree = "orig" THEN orig' ELSE clone'

RECURSIVE Repeat(_, _)
Repeat(t, k) == IF k = 0 THEN <<>> ELSE t \o Repeat(t, k - 1)

\* the token at x is one a rewriting pass has just built
IsNewToken(h, x) ==
    \E sp \in NewTokenSpecs :
        Snap(h, x) = Snap(BuildLeaf(EmptyHeap, sp).h, BuildLeaf(EmptyHeap, sp).p)

C4_ReplaceTemplate ==
    [][(last'.op = "InternalReplace" /\ heap[Target].kind = "least") =>
        IF last'.hit
        THEN LET l == heap'[TargetAfter]
             IN  /\ l.kind = "least" /\ l.n = heap[Target].n
                 /\ IsNewToken(heap', l.token)
                 /\ Len(l.elems) = Len(heap[Target].elems)
                 /\ IsTree(heap', TargetAfter)
                 /\ \A j \in 1..Len(l.elems) :
                       /\ Snap(heap', l.elems[j]) = Snap(heap', l.token)
                       /\ String(heap', l.elems[j]) = String(heap', l.token)
                 /\ String(heap', TargetAfter) =
                       Repeat(String(heap', l.token), Len(l.elems))
        ELSE heap' = heap /\ orig' = orig /\ clone' = clone]_vars

\* the template of a list of two elements was replaced: both elements render
\* the new template's 2
C4_Witness ==
    /\ heap[orig].kind = "least" /\ Len(heap[orig].elems) = 2
    /\ last.op = "InternalReplace" /\ last.tree = "orig" /\ last.hit
    /\ heap[heap[orig].token].value = 2
    /\ String(heap, orig) = <<"2", "2">>

(***************************************************************************)
(* C5.  A list built with the minimum n >= 0 holds at least n elements in  *)
(* every reachable state: after construction and after any Fuzz, FuzzAll,  *)
(* InternalReplace, Activate, Deactivate and Clone, whatever the random    *)
(* source returns.                                                         *)
(***************************************************************************)
C5_AtLeastN ==
    \A x \in Live :
        heap[x].kind = "least" => heap[x].n >= 0 /\ LeastLen(heap, x) >= heap[x].n

\* a Fuzz has given a list with minimum 1 two elements
C5_Witness ==
    /\ heap[orig].kind = "least" /\ heap[orig].n = 1
    /\ last.op = "Fuzz" /\ last.tree = "orig"
    /\ LeastLen(heap, orig) = 2

(***************************************************************************)
(* C6.  A list is optional exactly when n = 0.  When n = 0, Deactivate      *)
(* leaves no element and the empty text, and Activate leaves one element,  *)
(* a clone of the current template; when n > 0 both leave the elements as   *)
(* they are.  Neither changes n or the template.                           *)
(***************************************************************************)
C6_OptionalIffZero ==
    \A x \in Live : heap[x].kind = "least" => (IsOptional(heap, x) <=> heap[x].n = 0)

C6_Toggle ==
    (last'.op \in {"Activate", "Deactivate"}) =>
        LET l == heap[Target]
            m == heap'[TargetAfter]
        IN  /\ m.kind = "least" /\ m.n = l.n
            /\ Snap(heap', m.token) = Snap(heap, l.token)
            /\ IF l.n > 0
               THEN Snap(heap', TargetAfter) = Snap(heap, Target)
               ELSE IF last'.op = "Deactivate"
               THEN LeastLen(heap', TargetAfter) = 0
                    /\ String(heap', TargetAfter) = <<>>
               ELSE /\ LeastLen(heap', TargetAfter) = 1
                    /\ m.elems[1] # m.token
                    /\ Snap(heap', m.elems[1]) = Snap(heap, l.token)

C6_Optional == []C6_OptionalIffZero /\ [][C6_Toggle]_vars

\* Activate has given an optional list one element, a clone of the template
\* with the value 1 the template was fuzzed to
C6_Witness ==
    /\ heap[orig].kind = "least" /\ heap[orig].n = 0
    /\ last.op = "Activate" /\ last.tree = "orig"
    /\ LeastLen(heap, orig) = 1
    /\ heap[heap[orig].token].kind = "range"
    /\ heap[heap[orig].token].value = 1
    /\ String(heap, orig) = <<"1">>

(***************************************************************************)
(* C8.  An arithmetic node whose children render the decimal integers a    *)
(* and b (b # 0 for a division) renders a + b, a - b, a * b or the         *)
(* quotient of a by b truncated toward zero; the operands 3 and 4 give     *)
(* "7", "-1", "12" and "0".  A leaf child renders its current value, so    *)
(* the text follows a Fuzz or Permutation of a child and the replacement   *)
(* of an operand.                                                          *)
(***************************************************************************)
\* the quotient of a by b truncated toward zero: the remainder is smaller
\* than the divisor and has the sign of the dividend
TruncQuot(a, b) ==
    CHOOSE q \in (0 - Abs(a))..Abs(a) :
        \E r \in (0 - Abs(a))..Abs(a) :
            /\ a = q * b + r
            /\ Abs(r) < Abs(b)
            /\ (r = 0 \/ (r < 0) = (a < 0))

Expected(op, a, b) ==
    CASE op = "add" -> a + b
      [] op = "sub" -> a - b
      [] op = "mul" -> a * b
      [] op = "div" -> TruncQuot(a, b)

ExampleText(op) ==
    CASE op = "add" -> <<"7">>
      [] op = "sub" -> <<"-", "1">>
      [] op = "mul" -> <<"1", "2">>
      [] op = "div" -> <<"0">>

IsLeaf(h, x) == h[x].kind \in IntKinds

C8_ArithRender ==
    \A x \in Live :
        heap[x].kind \in ArithKinds =>
            LET ta == String(heap, heap[x].a)
                tb == String(heap, heap[x].b)
            IN  /\ \A c \in {heap[x].a, heap[x].b} :
                      IsLeaf(heap, c) => Renders(heap, c, heap[c].value)
                /\ (IsDecimal(ta) /\ IsDecimal(tb)
                        /\ (heap[x].kind = "div" => DecimalValue(tb) # 0)) =>
                      Renders(heap, x, Expected(heap[x].kind,
                                  DecimalValue(ta), DecimalValue(tb)))
                /\ (ta = <<"3">> /\ tb = <<"4">>) =>
                      String(heap, x) = ExampleText(heap[x].kind)

\* the divisor of a division whose dividend is -1 has been replaced by the
\* constant 2: the node renders 0, the quotient truncated toward zero
C8_Witness ==
    /\ heap[orig].kind = "div"
    /\ last.op = "InternalReplace" /\ last.tree = "orig" /\ last.hit
    /\ heap[heap[orig].a].value = 0 - 1
    /\ heap[heap[orig].b].kind = "const" /\ heap[heap[orig].b].value = 2
    /\ String(heap, orig) = <<"0">>

(***************************************************************************)
(* C9.  PermutationsAll of an arithmetic node is the product of its        *)
(* children's counts when the product fits the unsigned word, and the      *)
(* largest word when it does not; it is never 0.                           *)
(***************************************************************************)
RECURSIVE TrueCount(_, _)
\* the number of combinations below x, as an unbounded integer
TrueCount(h, x) ==
    IF h[x].kind \in ArithKinds
    THEN TrueCount(h, h[x].a) * TrueCount(h, h[x].b)
    ELSE IF h[x].kind = "range"
    THEN FloorQuot(h[x].to - h[x].from, h[x].step) + 1
    ELSE 1

MaxUint == UintModulus - 1

C9_Saturates ==
    \A x \in Live :
        heap[x].kind \in ArithKinds =>
            /\ PermutationsAll(heap, x) =
                  (IF TrueCount(heap, x) <= MaxUint
                   THEN TrueCount(heap, x) ELSE MaxUint)
            /\ PermutationsAll(heap, x) # 0

(***************************************************************************)
(* C11.  Render/Parse round trip of a ranged integer: after a successful   *)
(* Permutation(i), Parse of the token's own text from cursor 0 succeeds,   *)
(* returns the length of the text and leaves the value                     *)
(* from + (i - 1) * step.                                                  *)
(***************************************************************************)
C11_RoundTrip ==
    [][(/\ heap[orig].kind = "range"
        /\ last.op = "Permutation" /\ last.err = NoError
        /\ last'.op = "Parse" /\ last'.arg = 0
        /\ last'.buf = String(heap, orig)) =>
            /\ last'.errs = <<>>
            /\ last'.out = Len(String(heap, orig))
            /\ heap'[orig].value =
                  heap[orig].from + (last.arg - 1) * heap[orig].step]_vars

(***************************************************************************)
(* C12.  The value v of a ranged integer is a member of the valid set in   *)
(* every reachable state, after construction and after any Fuzz,           *)
(* Permutation and Parse: from <= v <= to and (v - from) % step = 0.       *)
(***************************************************************************)
C12_ValueInValidSet ==
    \A x \in Live :
        heap[x].kind = "range" =>
            /\ heap[x].from <= heap[x].value /\ heap[x].value <= heap[x].to
            /\ (heap[x].value - heap[x].from) % heap[x].step = 0

====
